---- MODULE Spec2Model ----
(***************************************************************************)
(* A model of the ReglGraph engine (regl-graph): construction and data     *)
(* load, picking (raycast), the hover / select / highlight interaction     *)
(* state, the event registry and the notifications each handler emits.     *)
(*                                                                         *)
(* JavaScript numbers are modelled as exact rationals with the IEEE        *)
(* specials the code can produce (NaN, +-Infinity) and `undefined`.        *)
(* Node indices are 0-based as in the source; -1 is the "none" sentinel.   *)
(***************************************************************************)
EXTENDS Integers, Sequences, FiniteSets, TLC

\* ------------------------------------------------------------------------
\* Bounds of the model
\* ------------------------------------------------------------------------
\* most handlers registered over all event names
MaxHandlers == 2
\* longest id list passed to highlight(ids)
MaxHighlight == 1

\* ------------------------------------------------------------------------
\* Program and environment constants
\* ------------------------------------------------------------------------
\* canvas.clientWidth / canvas.clientHeight read by init
StageWidth == 500
StageHeight == 500
\* settings.graphMargin
GraphMargin == 50
\* raycast: let pointSize = 1000
PointSize == 1000
\* raycast: the literal factor 5 in scaledPointSize
PointFactor == 5
\* raycast: const scaling = 1
Scaling == 1
\* window.devicePixelRatio
DevicePixelRatio == 1
\* state.hoveredNode / state.selectedNode "none" sentinel
NoNode == -1

\* ------------------------------------------------------------------------
\* JavaScript numbers
\* ------------------------------------------------------------------------
Abs(a) == IF a < 0 THEN -a ELSE a

RECURSIVE GCD(_, _)
GCD(a, b) == IF b = 0 THEN a ELSE GCD(b, a % b)

\* the rational n/d in lowest terms, d > 0
Num(n, d) ==
  IF d = 1 THEN [t |-> "num", n |-> n, d |-> 1]
  ELSE LET g == GCD(Abs(n), Abs(d))
           s == IF d < 0 THEN -1 ELSE 1
       IN  [t |-> "num", n |-> (s * n) \div g, d |-> (s * d) \div g]

Int2Num(i) == [t |-> "num", n |-> i, d |-> 1]
NaN == [t |-> "nan", n |-> 0, d |-> 1]
Undefined == [t |-> "undef", n |-> 0, d |-> 1]
PosInf == [t |-> "inf", n |-> 1, d |-> 1]
NegInf == [t |-> "inf", n |-> -1, d |-> 1]

IsNum(a) == a.t = "num"
IsInf(a) == a.t = "inf"
\* a number other than NaN (undefined converts to NaN in arithmetic)
IsOrdered(a) == a.t \in {"num", "inf"}
Sgn(a) == IF a.n > 0 THEN 1 ELSE IF a.n < 0 THEN -1 ELSE 0
InfOf(s) == IF s > 0 THEN PosInf ELSE NegInf

\* `if (v)` / `v ? a : b` on a number: 0, NaN and undefined are falsy
Truthy(a) == (IsNum(a) /\ a.n # 0) \/ IsInf(a)

Neg(a) == IF IsOrdered(a) THEN [a EXCEPT !.n = -a.n] ELSE NaN

Add(a, b) ==
  IF ~(IsOrdered(a) /\ IsOrdered(b)) THEN NaN
  ELSE IF IsNum(a) /\ IsNum(b)
       THEN IF a.n = 0 THEN b ELSE IF b.n = 0 THEN a
            ELSE Num(a.n * b.d + b.n * a.d, a.d * b.d)
  ELSE IF IsInf(a) /\ IsInf(b) THEN (IF a.n = b.n THEN a ELSE NaN)
  ELSE IF IsInf(a) THEN a ELSE b

Sub(a, b) == Add(a, Neg(b))

Mul(a, b) ==
  IF ~(IsOrdered(a) /\ IsOrdered(b)) THEN NaN
  ELSE IF IsNum(a) /\ IsNum(b)
       THEN IF a.n = 0 \/ b.n = 0 THEN [t |-> "num", n |-> 0, d |-> 1]
            ELSE Num(a.n * b.n, a.d * b.d)
  ELSE IF Sgn(a) = 0 \/ Sgn(b) = 0 THEN NaN
  ELSE InfOf(Sgn(a) * Sgn(b))

Div(a, b) ==
  IF ~(IsOrdered(a) /\ IsOrdered(b)) THEN NaN
  ELSE IF IsNum(a) /\ IsNum(b)
       THEN IF b.n # 0 THEN Num(a.n * b.d, a.d * b.n)
            ELSE IF a.n = 0 THEN NaN ELSE InfOf(Sgn(a))
  ELSE IF IsInf(a) /\ IsInf(b) THEN NaN
  ELSE IF IsInf(a) THEN InfOf(Sgn(a) * (IF Sgn(b) < 0 THEN -1 ELSE 1))
  ELSE Int2Num(0)

\* a < b as JavaScript evaluates it: false when either side is NaN / undefined
Lt(a, b) ==
  /\ IsOrdered(a)
  /\ IsOrdered(b)
  /\ IF IsNum(a) /\ IsNum(b) THEN a.n * b.d < b.n * a.d
     ELSE IF IsInf(a) /\ IsInf(b) THEN a.n < b.n
     ELSE IF IsInf(a) THEN a.n < 0
     ELSE b.n > 0

Gt(a, b) == Lt(b, a)
Le(a, b) == IsOrdered(a) /\ IsOrdered(b) /\ ~Lt(b, a)
Ge(a, b) == Le(b, a)

\* a === b on numbers (NaN is not equal to itself)
NumEq(a, b) == IsOrdered(a) /\ IsOrdered(b) /\ a = b

\* Math.ceil
Ceil(a) == IF IsNum(a) THEN Int2Num(-((-a.n) \div a.d)) ELSE IF IsInf(a) THEN a ELSE NaN

\* Math.round: floor(a + 1/2)
Round(a) == IF IsNum(a) THEN Int2Num((2 * a.n + a.d) \div (2 * a.d)) ELSE IF IsInf(a) THEN a ELSE NaN

\* Math.min / the code's minNumber and maxNumber
minNumber(a, b) == IF Lt(a, b) THEN a ELSE b
maxNumber(a, b) == IF Gt(a, b) THEN a ELSE b
MathMin(a, b) == IF ~(IsOrdered(a) /\ IsOrdered(b)) THEN NaN ELSE IF Lt(b, a) THEN b ELSE a

\* Math.log2 on the values raycast feeds it (powers of two)
RECURSIVE Log2Int(_)
Log2Int(k) == IF k <= 1 THEN 0 ELSE 1 + Log2Int(k \div 2)
Log2(a) == IF IsNum(a) /\ a.d = 1 /\ a.n >= 1 THEN Int2Num(Log2Int(a.n)) ELSE NaN

\* squared L2 distance; distance(...) itself is its square root
Dist2(x1, y1, x2, y2) == Add(Mul(Sub(x1, x2), Sub(x1, x2)), Mul(Sub(y1, y2), Sub(y1, y2)))

\* d3 scaleLinear().domain(dom).range(rng) applied to v: a degenerate domain
\* maps every value to the middle of the range (d3-scale normalize -> 0.5)
ScaleLinear(dom, rng, v) ==
  LET span == Sub(dom[2], dom[1])
      tt == IF Truthy(span) THEN Div(Sub(v, dom[1]), span)
            ELSE IF IsOrdered(span) THEN Num(1, 2) ELSE NaN
  IN  Add(Mul(rng[1], Sub(Int2Num(1), tt)), Mul(rng[2], tt))

\* ------------------------------------------------------------------------
\* Input records (README "API": data = { nodes, edges })
\* ------------------------------------------------------------------------
NoPosition == [def |-> FALSE, x |-> Undefined, y |-> Undefined]
Position(px, py) == [def |-> TRUE, x |-> Int2Num(px), y |-> Int2Num(py)]
\* colour strings by the form the two regular expressions of glslColor see
NoColor == [fmt |-> "none", r |-> 0, g |-> 0, b |-> 0]
Hex(r, g, b) == [fmt |-> "hex", r |-> r, g |-> g, b |-> b]
\* node.attributes: absent, or an object given as its set of <<key, value>>
NoAttributes == [def |-> FALSE, kv |-> {}]
Attributes(kv) == [def |-> TRUE, kv |-> kv]

InNode(id, x, y, position, size, color, attributes) ==
  [id |-> id, label |-> id, x |-> x, y |-> y, position |-> position,
   size |-> Int2Num(size), color |-> color, attributes |-> attributes]

\* sourceID / targetID, with the alternate fields source / target ("" = absent)
InEdge(sourceID, targetID, source, target, size, weight) ==
  [sourceID |-> sourceID, targetID |-> targetID, source |-> source,
   target |-> target, size |-> size, weight |-> weight]

\* three nodes, x and y given directly and non-zero
NodesXY ==
  << InNode("a", Int2Num(100), Int2Num(100), NoPosition, 10, NoColor, NoAttributes),
     InNode("b", Int2Num(200), Int2Num(100), NoPosition, 10, Hex(255, 0, 0), NoAttributes),
     InNode("c", Int2Num(100), Int2Num(300), NoPosition, 20, NoColor, NoAttributes) >>

\* the same layout given through the alternate field `position`
NodesPosition ==
  << InNode("a", Undefined, Undefined, Position(0, 0), 10, NoColor, NoAttributes),
     InNode("b", Undefined, Undefined, Position(100, 0), 10, NoColor, NoAttributes),
     InNode("c", Undefined, Undefined, Position(0, 200), 20, NoColor, NoAttributes) >>

\* the two-node scenario of the spec: a(0,0), b(100,0), no `position` field
NodesZero ==
  << InNode("a", Int2Num(0), Int2Num(0), NoPosition, 10, NoColor, NoAttributes),
     InNode("b", Int2Num(100), Int2Num(0), NoPosition, 10, NoColor, NoAttributes) >>

\* NodesXY whose second node carries a user attribute named `index`
NodesAttr ==
  << InNode("a", Int2Num(100), Int2Num(100), NoPosition, 10, NoColor, NoAttributes),
     InNode("b", Int2Num(200), Int2Num(100), NoPosition, 10, NoColor,
            Attributes({<<"index", 2>>})),
     InNode("c", Int2Num(100), Int2Num(300), NoPosition, 20, NoColor,
            Attributes({<<"group", 7>>})) >>

\* x and y given directly with fractional extents: x in [1, 5/2], y in [1, 4]
NodesFraction ==
  << InNode("a", Int2Num(1), Int2Num(1), NoPosition, 10, NoColor, NoAttributes),
     InNode("b", Num(5, 2), Int2Num(1), NoPosition, 10, NoColor, NoAttributes),
     InNode("c", Int2Num(1), Int2Num(4), NoPosition, 20, NoColor, NoAttributes) >>

\* a layout wider than tall: x in [100, 400], y in [100, 200]
NodesWide ==
  << InNode("a", Int2Num(100), Int2Num(100), NoPosition, 10, NoColor, NoAttributes),
     InNode("b", Int2Num(400), Int2Num(100), NoPosition, 10, NoColor, NoAttributes),
     InNode("c", Int2Num(100), Int2Num(200), NoPosition, 20, NoColor, NoAttributes) >>

\* NodesXY with the colours 'rgb(0, 128, 255)', 'rgba(255, 0, 0, 0.5)' and the
\* malformed 'red'
NodesColours ==
  << InNode("a", Int2Num(100), Int2Num(100), NoPosition, 10,
            [fmt |-> "rgb", r |-> 0, g |-> 128, b |-> 255], NoAttributes),
     InNode("b", Int2Num(200), Int2Num(100), NoPosition, 10,
            [fmt |-> "rgba", r |-> 255, g |-> 0, b |-> 0], NoAttributes),
     InNode("c", Int2Num(100), Int2Num(300), NoPosition, 20,
            [fmt |-> "malformed", r |-> 0, g |-> 0, b |-> 0], NoAttributes) >>

\* five nodes, three of them within one pick range of the pixel (350, 50):
\* b at a distance of 8, e and f both at a distance of 3
NodesClose ==
  << InNode("a", Int2Num(100), Int2Num(100), NoPosition, 10, NoColor, NoAttributes),
     InNode("b", Int2Num(200), Int2Num(104), NoPosition, 10, NoColor, NoAttributes),
     InNode("e", Int2Num(200), Num(203, 2), NoPosition, 10, NoColor, NoAttributes),
     InNode("f", Num(397, 2), Int2Num(100), NoPosition, 10, NoColor, NoAttributes),
     InNode("c", Int2Num(100), Int2Num(300), NoPosition, 20, NoColor, NoAttributes) >>

EdgesAB == << InEdge("a", "b", "", "", Undefined, Int2Num(1)) >>
EdgesStar ==
  << InEdge("a", "b", "", "", Int2Num(1), Undefined),
     InEdge("", "", "c", "a", Int2Num(3), Undefined) >>

\* the first edge carries neither size nor weight, the second a size
EdgesLateSize ==
  << InEdge("a", "b", "", "", Undefined, Undefined),
     InEdge("c", "a", "", "", Int2Num(3), Undefined) >>

NoData == [def |-> FALSE, hasNodes |-> FALSE, nodes |-> <<>>, hasEdges |-> FALSE, edges |-> <<>>]
Data(nodes, edges) == [def |-> TRUE, hasNodes |-> TRUE, nodes |-> nodes, hasEdges |-> TRUE, edges |-> edges]
DataNoEdges(nodes) == [def |-> TRUE, hasNodes |-> TRUE, nodes |-> nodes, hasEdges |-> FALSE, edges |-> <<>>]
DataNoNodes(edges) == [def |-> TRUE, hasNodes |-> FALSE, nodes |-> <<>>, hasEdges |-> TRUE, edges |-> edges]

\* the datasets the constructor is called with
Datasets ==
  { NoData,
    Data(NodesXY, EdgesStar),
    Data(NodesPosition, EdgesStar),
    Data(NodesAttr, EdgesStar),
    Data(NodesZero, EdgesAB),
    Data(NodesFraction, EdgesStar),
    Data(NodesWide, EdgesStar),
    Data(NodesClose, EdgesStar),
    Data(NodesXY, EdgesLateSize),
    Data(NodesColours, EdgesStar),
    DataNoEdges(NodesXY),
    DataNoNodes(EdgesAB) }

\* options.showEdges: key absent, explicitly undefined, true, false
ShowEdgesOptions == {"absent", "undefined", "true", "false"}

\* ------------------------------------------------------------------------
\* Settings (constructor defaults merged with options)
\* ------------------------------------------------------------------------
NodesSizeRange == << Int2Num(5), Int2Num(30) >>
EdgesWeightRange == << Int2Num(1), Int2Num(5) >>
DefaultNodesOpacity == Int2Num(1)

\* this.settings = {...this.settings, ...options}: an options key that is
\* present overrides the default even when its value is undefined
MergedShowEdges(opt) == IF opt = "absent" THEN "true" ELSE opt

\* truthiness of a stored option value
OptionOn(v) == v = "true"

\* ------------------------------------------------------------------------
\* Colours
\* ------------------------------------------------------------------------
\* scaleRGBToVec4: scaleLinear().domain([0, 255]).range([0, 1])
scaleRGBToVec4(v) == ScaleLinear(<< Int2Num(0), Int2Num(255) >>, << Int2Num(0), Int2Num(1) >>, v)

\* glslColor: the vec4 of a colour string, << >> for null.  In the rgba(...)
\* alternative of the regular expression the channels are capture groups 5-7,
\* so result[1..3] are undefined and parseInt gives NaN.
glslColor(color, opacity) ==
  CASE color.fmt = "rgb" ->
         << scaleRGBToVec4(Int2Num(color.r)), scaleRGBToVec4(Int2Num(color.g)),
            scaleRGBToVec4(Int2Num(color.b)), opacity >>
    [] color.fmt = "rgba" ->
         << scaleRGBToVec4(NaN), scaleRGBToVec4(NaN), scaleRGBToVec4(NaN), opacity >>
    [] color.fmt = "hex" ->
         << scaleRGBToVec4(Int2Num(color.r)), scaleRGBToVec4(Int2Num(color.g)),
            scaleRGBToVec4(Int2Num(color.b)), opacity >>
    [] OTHER -> << >>

\* node.color ? this.glslColor(node.color, opacity) : [1, 1, 1, opacity]
NodeColor(node, opacity) ==
  IF node.color.fmt # "none" THEN glslColor(node.color, opacity)
  ELSE << Int2Num(1), Int2Num(1), Int2Num(1), opacity >>

\* ------------------------------------------------------------------------
\* loadData
\* ------------------------------------------------------------------------
\* const x = node.x ? node.x : node.position.x   (and the same for y)
NodeX(node) == IF Truthy(node.x) THEN node.x ELSE node.position.x
NodeY(node) == IF Truthy(node.y) THEN node.y ELSE node.position.y
\* node.position.x on a node without `position` is a TypeError
NodeCoordThrows(node) ==
  \/ ~Truthy(node.x) /\ ~node.position.def
  \/ ~Truthy(node.y) /\ ~node.position.def

\* the running [min, max] of the extents pass over vals[i..]
RECURSIVE ExtentFrom(_, _, _)
ExtentFrom(vals, i, acc) ==
  IF i > Len(vals) THEN acc
  ELSE ExtentFrom(vals, i + 1,
         << IF Lt(vals[i], acc[1]) THEN vals[i] ELSE acc[1],
            IF Gt(vals[i], acc[2]) THEN vals[i] ELSE acc[2] >>)

NodeExtent(vals) == ExtentFrom(vals, 1, << PosInf, NegInf >>)

\* d3.extent: undefined / NaN values are skipped; [undefined, undefined] if none
RECURSIVE D3ExtentFrom(_, _, _)
D3ExtentFrom(vals, i, acc) ==
  IF i > Len(vals) THEN acc
  ELSE LET v == vals[i]
       IN  D3ExtentFrom(vals, i + 1,
             IF v.t = "undef" THEN acc
             ELSE IF acc[1].t = "undef"
                  THEN (IF Ge(v, v) THEN << v, v >> ELSE acc)
             ELSE << IF Gt(acc[1], v) THEN v ELSE acc[1],
                     IF Lt(acc[2], v) THEN v ELSE acc[2] >>)

d3Extent(vals) == D3ExtentFrom(vals, 1, << Undefined, Undefined >>)

\* extents.weight of loadData; edges is non-empty here
WeightExtent(edges, showEdges) ==
  IF ~showEdges THEN << PosInf, NegInf >>
  ELSE IF edges[1].size.t # "undef" \/ edges[1].weight.t # "undef"
       THEN IF Truthy(edges[1].size)
            THEN d3Extent([i \in 1..Len(edges) |-> edges[i].size])
            ELSE d3Extent([i \in 1..Len(edges) |-> edges[i].weight])
  ELSE << Int2Num(0), Int2Num(1) >>

\* layoutAspectRatio: the extra margins that centre the axis with slack
layoutAspectRatio(xExtent, yExtent) ==
  LET w == Int2Num(StageWidth - GraphMargin * 2)
      h == Int2Num(StageHeight - GraphMargin * 2)
      dx == Ceil(Sub(xExtent[2], xExtent[1]))
      dy == Ceil(Sub(yExtent[2], yExtent[1]))
      factorX == Div(w, dx)
      factorY == Div(h, dy)
      factor == MathMin(factorX, factorY)
  IN  [marginXIncrease |-> Div(Sub(w, Mul(factor, dx)), Int2Num(2)),
       marginYIncrease |-> Div(Sub(h, Mul(factor, dy)), Int2Num(2))]

\* extents.weight[0] === extents.weight[1]
StrictEq(a, b) == IF IsOrdered(a) /\ IsOrdered(b) THEN a = b ELSE a.t = "undef" /\ b.t = "undef"

\* scales.weight: rangeRound([1, 1]) for a degenerate extent
ScaleWeight(extent, v) ==
  Round(ScaleLinear(extent,
          IF StrictEq(extent[1], extent[2]) THEN << Int2Num(1), Int2Num(1) >> ELSE EdgesWeightRange,
          v))

\* the weight (line width) of one edge
EdgeWeight(edge, extent) ==
  IF edge.size.t # "undef" THEN ScaleWeight(extent, edge.size)
  ELSE IF edge.weight.t # "undef" THEN ScaleWeight(extent, edge.weight)
  ELSE Int2Num(1)

\* edge.sourceID || edge.source, edge.targetID || edge.target
EdgeSource(edge) == IF edge.sourceID # "" THEN edge.sourceID ELSE edge.source
EdgeTarget(edge) == IF edge.targetID # "" THEN edge.targetID ELSE edge.target

\* value of `key` in the attributes object, or dflt when the key is absent
AttrOr(attributes, key, dflt) ==
  IF attributes.def /\ \E kv \in attributes.kv : kv[1] = key
  THEN (CHOOSE kv \in attributes.kv : kv[1] = key)[2]
  ELSE dflt

\* [scales.x(x), scales.y(y), i]
NodePosition(nodes, i) ==
  LET xs == [k \in 1..Len(nodes) |-> NodeX(nodes[k])]
      ys == [k \in 1..Len(nodes) |-> NodeY(nodes[k])]
      ex == NodeExtent(xs)
      ey == NodeExtent(ys)
      inc == layoutAspectRatio(ex, ey)
      m == Int2Num(GraphMargin)
      rx == << Add(m, inc.marginXIncrease), Sub(Sub(Int2Num(StageWidth), m), inc.marginXIncrease) >>
      ry == << Add(m, inc.marginYIncrease), Sub(Sub(Int2Num(StageHeight), m), inc.marginYIncrease) >>
  IN  << ScaleLinear(ex, rx, xs[i + 1]), ScaleLinear(ey, ry, ys[i + 1]), i >>

\* scales.size(node.size)
NodeSize(nodes, i) ==
  ScaleLinear(NodeExtent([k \in 1..Len(nodes) |-> nodes[k].size]), NodesSizeRange, nodes[i + 1].size)

\* the data object handed to graph.addNode for the node at input slot i:
\* the spread of node.attributes comes last and overrides a key it repeats
NodeData(nodes, i) ==
  [color |-> nodes[i + 1].color,
   label |-> nodes[i + 1].label,
   x |-> NodeX(nodes[i + 1]),
   y |-> NodeY(nodes[i + 1]),
   index |-> AttrOr(nodes[i + 1].attributes, "index", i),
   position |-> NodePosition(nodes, i),
   size |-> NodeSize(nodes, i),
   extra |-> {kv \in nodes[i + 1].attributes.kv : kv[1] # "index"}]

\* ngraph addNode: a later node with the same id replaces the data
GraphNodes(nodes) ==
  [id \in {nodes[k].id : k \in 1..Len(nodes)} |->
     NodeData(nodes, (CHOOSE k \in 1..Len(nodes) :
                        /\ nodes[k].id = id
                        /\ \A j \in 1..Len(nodes) : nodes[j].id = id => j <= k) - 1)]

\* ngraph addLink, one link per edge in input order
GraphLinks(edges, extent) ==
  [i \in 1..Len(edges) |->
     [fromId |-> EdgeSource(edges[i]), toId |-> EdgeTarget(edges[i]),
      weight |-> EdgeWeight(edges[i], extent), index |-> i - 1]]

\* matrices.edgesPositionsByWeight: a Map in insertion order, as a sequence
\* of [key, points]; each edge appends its two end positions to its bucket
RECURSIVE BucketsFrom(_, _, _, _)
BucketsFrom(links, gnodes, i, acc) ==
  IF i > Len(links) THEN acc
  ELSE LET l == links[i]
           pts == << gnodes[l.fromId].position, gnodes[l.toId].position >>
           at == {k \in 1..Len(acc) : acc[k].key = l.weight}
       IN  BucketsFrom(links, gnodes, i + 1,
             IF at = {} THEN Append(acc, [key |-> l.weight, points |-> pts])
             ELSE [acc EXCEPT ![CHOOSE k \in at : TRUE].points = @ \o pts])

\* loadData raises a TypeError: edges[0] of an empty list, node.position.x of
\* a node without position, or source.data of an edge end that is no node
LoadThrows(data, showEdges) ==
  \/ showEdges /\ Len(data.edges) = 0
  \/ \E k \in 1..Len(data.nodes) : NodeCoordThrows(data.nodes[k])
  \/ showEdges /\ \E k \in 1..Len(data.edges) :
       \/ EdgeSource(data.edges[k]) \notin {data.nodes[j].id : j \in 1..Len(data.nodes)}
       \/ EdgeTarget(data.edges[k]) \notin {data.nodes[j].id : j \in 1..Len(data.nodes)}

EmptyGraph == [nodes |-> << >>, links |-> << >>]
EmptyMatrices == [nodesPositions |-> << >>, edgesPositionsByWeight |-> << >>,
                  nodeColors |-> << >>, sizes |-> << >>]

\* loadData: the graph model, the index -> id map and the shader arrays
\* (arrays are functions on 0..n-1)
loadData(data, showEdges, opacity) ==
  LET nodes == data.nodes
      n == Len(nodes)
      extent == WeightExtent(data.edges, showEdges)
      gnodes == GraphNodes(nodes)
      links == IF showEdges THEN GraphLinks(data.edges, extent) ELSE << >>
  IN  [graph |-> [nodes |-> gnodes, links |-> links],
       nodeIndex |-> [i \in 0..(n - 1) |-> nodes[i + 1].id],
       matrices |->
         [nodesPositions |-> [i \in 0..(n - 1) |-> NodePosition(nodes, i)],
          edgesPositionsByWeight |-> BucketsFrom(links, gnodes, 1, << >>),
          nodeColors |-> [i \in 0..(n - 1) |-> NodeColor(nodes[i + 1], opacity)],
          sizes |-> [i \in 0..(n - 1) |-> NodeSize(nodes, i)]]]

\* ------------------------------------------------------------------------
\* gl-matrix mat3 / vec3 as the engine calls them; a matrix is the tuple of
\* its nine entries in gl-matrix order (m[1] is a[0] of the source)
\* ------------------------------------------------------------------------
Zero == Int2Num(0)
One == Int2Num(1)

\* mat3.create(): the identity
Mat3Create == << One, Zero, Zero, Zero, One, Zero, Zero, Zero, One >>

\* mat3.projection(out, width, height)
Mat3Projection(width, height) ==
  << Div(Int2Num(2), Int2Num(width)), Zero, Zero,
     Zero, Div(Int2Num(-2), Int2Num(height)), Zero,
     Int2Num(-1), One, One >>

\* mat3.translate(out, a, [x, y])
Mat3Translate(a, x, y) ==
  << a[1], a[2], a[3], a[4], a[5], a[6],
     Add(Add(Mul(x, a[1]), Mul(y, a[4])), a[7]),
     Add(Add(Mul(x, a[2]), Mul(y, a[5])), a[8]),
     Add(Add(Mul(x, a[3]), Mul(y, a[6])), a[9]) >>

\* mat3.scale(out, a, [x, y])
Mat3Scale(a, x, y) ==
  << Mul(x, a[1]), Mul(x, a[2]), Mul(x, a[3]),
     Mul(y, a[4]), Mul(y, a[5]), Mul(y, a[6]),
     a[7], a[8], a[9] >>

\* mat3.multiply(out, a, b)
Mat3Multiply(a, b) ==
  << Add(Add(Mul(b[1], a[1]), Mul(b[2], a[4])), Mul(b[3], a[7])),
     Add(Add(Mul(b[1], a[2]), Mul(b[2], a[5])), Mul(b[3], a[8])),
     Add(Add(Mul(b[1], a[3]), Mul(b[2], a[6])), Mul(b[3], a[9])),
     Add(Add(Mul(b[4], a[1]), Mul(b[5], a[4])), Mul(b[6], a[7])),
     Add(Add(Mul(b[4], a[2]), Mul(b[5], a[5])), Mul(b[6], a[8])),
     Add(Add(Mul(b[4], a[3]), Mul(b[5], a[6])), Mul(b[6], a[9])),
     Add(Add(Mul(b[7], a[1]), Mul(b[8], a[4])), Mul(b[9], a[7])),
     Add(Add(Mul(b[7], a[2]), Mul(b[8], a[5])), Mul(b[9], a[8])),
     Add(Add(Mul(b[7], a[3]), Mul(b[8], a[6])), Mul(b[9], a[9])) >>

\* the determinant mat3.invert tests
Mat3Det(a) ==
  LET b01 == Sub(Mul(a[9], a[5]), Mul(a[6], a[8]))
      b11 == Add(Mul(Neg(a[9]), a[4]), Mul(a[6], a[7]))
      b21 == Sub(Mul(a[8], a[4]), Mul(a[5], a[7]))
  IN  Add(Add(Mul(a[1], b01), Mul(a[2], b11)), Mul(a[3], b21))

\* mat3.invert(out, a) once det is known: << >> stands for the null it
\* returns when !det
Mat3InvertDet(a, det, inv) ==
  IF ~Truthy(det) THEN << >>
  ELSE << Mul(Sub(Mul(a[9], a[5]), Mul(a[6], a[8])), inv),
          Mul(Add(Mul(Neg(a[9]), a[2]), Mul(a[3], a[8])), inv),
          Mul(Sub(Mul(a[6], a[2]), Mul(a[3], a[5])), inv),
          Mul(Add(Mul(Neg(a[9]), a[4]), Mul(a[6], a[7])), inv),
          Mul(Sub(Mul(a[9], a[1]), Mul(a[3], a[7])), inv),
          Mul(Add(Mul(Neg(a[6]), a[1]), Mul(a[3], a[4])), inv),
          Mul(Sub(Mul(a[8], a[4]), Mul(a[5], a[7])), inv),
          Mul(Add(Mul(Neg(a[8]), a[1]), Mul(a[2], a[7])), inv),
          Mul(Sub(Mul(a[5], a[1]), Mul(a[2], a[4])), inv) >>

\* mat3.invert(out, a); the determinant and 1/det are bound as values so
\* that they are computed once
Mat3Invert(a) ==
  CHOOSE out \in { Mat3InvertDet(m, det, Div(One, det)) : m \in {a}, det \in {Mat3Det(a)} } : TRUE

\* vec3.transformMat3(out, v, m), first two components
Vec3TransformMat3(v, m) ==
  << Add(Add(Mul(v[1], m[1]), Mul(v[2], m[4])), Mul(v[3], m[7])),
     Add(Add(Mul(v[1], m[2]), Mul(v[2], m[5])), Mul(v[3], m[8])) >>

\* updateTransform(x, y, scale): the model matrix
updateTransform(x, y, scale) ==
  Mat3Translate(Mat3Scale(Mat3Translate(Mat3Create, x, y), scale, scale), Zero, Zero)

\* ------------------------------------------------------------------------
\* Picking
\* ------------------------------------------------------------------------
\* variant of getNdcY without the flip of the y axis
getNdcYUnflipped(y) == Add(Int2Num(-1), Mul(Div(y, Int2Num(StageHeight)), Int2Num(2)))

getNdcX(x) == Add(Int2Num(-1), Mul(Div(x, Int2Num(StageWidth)), Int2Num(2)))
getNdcY(y) == Add(One, Mul(Div(y, Int2Num(StageHeight)), Int2Num(-2)))

\* getMouseGlPos
getMouseGlPos(st) == << getNdcX(st.mousePosition[1]), getNdcY(st.mousePosition[2]) >>

\* variant of the fallback of getScatterGlPos that inverts the projection
\* alone when projection x transform is singular
ScatterWithProjectionFallback(gl, inv) ==
  Vec3TransformMat3(<< gl[1], gl[2], One >>,
                    IF inv = << >> THEN Mat3Invert(Mat3Projection(StageWidth, StageHeight)) ELSE inv)

\* vec3.transformMat3 of the homogeneous cursor by the inverse, or by the
\* identity when mat3.invert returned null
ScatterWith(gl, inv) ==
  Vec3TransformMat3(<< gl[1], gl[2], One >>, IF inv = << >> THEN Mat3Create ELSE inv)

\* getScatterGlPos(): the cursor in world coordinates; the identity replaces
\* the inverse of projection x transform when that matrix is singular
getScatterGlPos(st) ==
  CHOOSE v \in { ScatterWith(gl, inv) :
                   gl \in { getMouseGlPos(st) },
                   inv \in { Mat3Invert(Mat3Multiply(st.projection, st.transform)) } } : TRUE

\* the point vertex shader: projection * transform * vec3(position.xy, 1)
VertexGlPosition(st, position) ==
  Vec3TransformMat3(<< position[1], position[2], One >>, Mat3Multiply(st.projection, st.transform))

\* the canvas pixel the viewport puts a gl_Position at
GlToPixel(gl) ==
  << Mul(Div(Add(gl[1], One), Int2Num(2)), Int2Num(StageWidth)),
     Mul(Div(Sub(One, gl[2]), Int2Num(2)), Int2Num(StageHeight)) >>

\* scaledPointSize of raycast
ScaledPointSize ==
  Mul(Mul(Mul(Int2Num(PointFactor), Int2Num(PointSize)),
          Add(minNumber(One, Int2Num(Scaling)), Log2(maxNumber(One, Int2Num(Scaling))))),
      Int2Num(DevicePixelRatio))

\* xNormalizedScaledPointSize / yNormalizedScaledPointSize
XNormalized == Div(ScaledPointSize, Int2Num(StageWidth))
YNormalized == Div(ScaledPointSize, Int2Num(StageHeight))

\* KDBush range(minX, minY, maxX, maxY): ids of the points inside the box,
\* bounds included; with at most 64 points (one kd-tree leaf) in index order
RECURSIVE RangeFrom(_, _, _, _, _, _)
RangeFrom(points, i, minX, minY, maxX, maxY) ==
  IF i \notin DOMAIN points THEN << >>
  ELSE (IF /\ Ge(points[i][1], minX) /\ Le(points[i][1], maxX)
           /\ Ge(points[i][2], minY) /\ Le(points[i][2], maxY)
        THEN << i >> ELSE << >>)
       \o RangeFrom(points, i + 1, minX, minY, maxX, maxY)

SearchRange(points, minX, minY, maxX, maxY) ==
  CHOOSE ids \in { RangeFrom(points, 0, b[1], b[2], b[3], b[4]) : b \in { << minX, minY, maxX, maxY >> } } : TRUE

\* variant of the comparison in raycast that lets a later candidate at the
\* same distance replace the one found
DistLe(d2, m2) == Le(d2, m2)

\* d < minDist on two distances, compared through their squares
DistLt(d2, m2) == Lt(d2, m2)

\* the forEach of raycast over ids[k..]: closest is << >> (undefined) or
\* << idx >>, minDist2 the square of minDist
RECURSIVE ClosestFrom(_, _, _, _, _, _, _)
ClosestFrom(points, ids, k, mouseX, mouseY, minDist2, closest) ==
  IF k > Len(ids) THEN closest
  ELSE LET idx == ids[k]
           d2 == Dist2(points[idx][1], points[idx][2], mouseX, mouseY)
       IN  IF DistLt(d2, minDist2)
           THEN ClosestFrom(points, ids, k + 1, mouseX, mouseY, d2, << idx >>)
           ELSE ClosestFrom(points, ids, k + 1, mouseX, mouseY, minDist2, closest)

\* raycast() for the cursor at world position `mouse`
raycastAt(points, mouse) ==
  ClosestFrom(points,
              SearchRange(points, Sub(mouse[1], XNormalized), Sub(mouse[2], YNormalized),
                          Add(mouse[1], XNormalized), Add(mouse[2], YNormalized)),
              1, mouse[1], mouse[2], Mul(ScaledPointSize, ScaledPointSize), << >>)

\* raycast(): << >> for undefined, << idx >> for the index found
raycast(st, points) ==
  CHOOSE closest \in { raycastAt(points, mouse) : mouse \in { getScatterGlPos(st) } } : TRUE

\* `if (closestPoint)`: undefined and index 0 are falsy
HitTruthy(closest) == closest # << >> /\ closest[1] # 0

\* ------------------------------------------------------------------------
\* State of one engine instance
\* ------------------------------------------------------------------------
VARIABLES
  phase,        \* "new" before the constructor runs, "ready" after it returned, "threw" if it threw
  error,        \* which error the constructor threw, "" for none
  settings,     \* this.settings
  app,          \* this.app (handles as present / null) with graph and nodeIndex
  matrices,     \* this.matrices
  buffers,      \* this.buffers
  searchIndex,  \* this.searchIndex: the points KDBush was built from
  tooltip,      \* this.tooltip: created, and whether it is shown
  state,        \* this.state
  events,       \* this.events: event name -> handlers in registration order
  registered,   \* history: per event name, the handlers passed to on(), in call order
  cursor,       \* the canvas' cursor style
  trace         \* what the last operation did, in order: events raised, handlers called, frames rendered

vars == << phase, error, settings, app, matrices, buffers, searchIndex, tooltip,
           state, events, registered, cursor, trace >>

EventNames == {"nodeselect", "click", "nodeover", "nodeout", "zoom"}
\* values passed to on(): two functions and a value that is not a function
Handlers == {"f", "g", "notAFunction"}
IsFunction(h) == h # "notAFunction"

\* cursor positions (canvas pixels) of the pointer events: on the first node,
\* on the second node, on empty space
Cursors == { <<150, 50>>, <<350, 50>>, <<350, 450>> }
\* cursor positions around the first node, for the picking radius, on the
\* second and the third node, and on empty space
PickCursors ==
  { <<150, 50>>, <<158, 58>>, <<160, 50>>, <<161, 50>>, <<150, 61>>, <<350, 50>>, <<150, 450>>,
    <<250, 250>> }
\* event.transform {x, y, k} of the zoom events
ZoomTransforms == { <<0, 0, 1>>, <<-150, -50, 2>> }
\* pans and zooms for the coordinate mapping, k = 0 (a singular matrix) included
PanZooms == { <<0, 0, 1>>, <<-150, -50, 2>>, <<40, -30, 3>>, <<-600, -200, 4>>, <<25, 10, 1>>, <<0, 0, 0>> }

\* ------------------------------------------------------------------------
\* Graph model queries (ngraph.graph as the engine uses it)
\* ------------------------------------------------------------------------
\* this.app.nodeIndex.get(index)
NodeIndexGet(a, index) == IF index \in DOMAIN a.nodeIndex THEN a.nodeIndex[index] ELSE "undefined"

\* graph.getNode(id): the node, named by its id, or "undefined"
GraphGetNode(a, id) == IF id \in DOMAIN a.graph.nodes THEN id ELSE "undefined"

\* getNodeByIndex(index)
getNodeByIndex(a, index) == GraphGetNode(a, NodeIndexGet(a, index))

\* graph.forEachLinkedNode(nodeID, cb) collecting linkedNode.data.index:
\* every link of the node, either direction, in the order the links were added
RECURSIVE LinkedFrom(_, _, _)
LinkedFrom(a, nodeID, i) ==
  IF i > Len(a.graph.links) THEN << >>
  ELSE LET l == a.graph.links[i]
       IN  (IF l.fromId = nodeID THEN << a.graph.nodes[l.toId].index >>
            ELSE IF l.toId = nodeID THEN << a.graph.nodes[l.fromId].index >>
            ELSE << >>)
           \o LinkedFrom(a, nodeID, i + 1)

\* getNodeNeighbors(nodeID, true)
getNodeNeighbors(a, nodeID) ==
  IF nodeID \in DOMAIN a.graph.nodes THEN LinkedFrom(a, nodeID, 1) ELSE << >>

\* ------------------------------------------------------------------------
\* Trace entries and events
\* ------------------------------------------------------------------------
\* what an observer (a handler, a frame) sees of this.state at that moment
Snap(st) ==
  [hoveredNode |-> st.hoveredNode, hoverNeighbors |-> st.hoverNeighbors,
   selectedNode |-> st.selectedNode, selectedNeighbors |-> st.selectedNeighbors,
   highlightedNodes |-> st.highlightedNodes, mouseDown |-> st.mouseDown,
   zoom |-> st.transform[1]]

Entry(kind, name, arg, handler, st) ==
  [kind |-> kind, name |-> name, arg |-> arg, handler |-> handler, snap |-> Snap(st)]

\* render(): a frame is a function of the state it is drawn from
render(st) == << Entry("render", "", "", "", st) >>

\* the loop of raiseEvent over actions[i..]: every function is called with args
RECURSIVE CallFrom(_, _, _, _, _)
CallFrom(actions, i, eventName, args, st) ==
  IF i > Len(actions) THEN << >>
  ELSE (IF IsFunction(actions[i]) THEN << Entry("call", eventName, args, actions[i], st) >> ELSE << >>)
       \o CallFrom(actions, i + 1, eventName, args, st)

\* raiseEvent(eventName, args)
raiseEvent(ev, eventName, args, st) ==
  << Entry("raise", eventName, args, "", st) >> \o CallFrom(ev[eventName], 1, eventName, args, st)

\* variant of on(eventName, handler) that keeps only the latest handler
onReplacing(ev, eventName, handler) == [ev EXCEPT ![eventName] = << handler >>]

\* on(eventName, handler): the registry after the call
on(ev, eventName, handler) == [ev EXCEPT ![eventName] = Append(@, handler)]

\* hoveredNodeWatcher(value, oldValue), called by set() after the assignment
hoveredNodeWatcher(a, ev, value, oldValue, st) ==
  IF value = NoNode /\ oldValue # NoNode
  THEN raiseEvent(ev, "nodeout", getNodeByIndex(a, oldValue), st)
  ELSE raiseEvent(ev, "nodeover", getNodeByIndex(a, value), st)

\* ------------------------------------------------------------------------
\* Interaction state: each operator gives the new state and what it emitted
\* ------------------------------------------------------------------------
Out(st, tr) == [st |-> st, tr |-> tr]

\* setHoverNeighbors(index); index "null" is the default argument
setHoverNeighbors(a, st, index, isNull) ==
  [st EXCEPT !.hoverNeighbors =
     IF isNull THEN << >> ELSE getNodeNeighbors(a, NodeIndexGet(a, index))]

\* setSelectedNeighbors(index)
setSelectedNeighbors(a, st, index, isNull) ==
  [st EXCEPT !.selectedNeighbors =
     IF isNull THEN << >> ELSE getNodeNeighbors(a, NodeIndexGet(a, index))]

\* setHoveredNode(idx): set('state.hoveredNode', idx) runs the watcher, then
\* the neighbours are set, then a frame is rendered
setHoveredNode(a, ev, st, idx) ==
  IF st.hoveredNode # idx
  THEN LET st1 == [st EXCEPT !.hoveredNode = idx]
           tr1 == hoveredNodeWatcher(a, ev, idx, st.hoveredNode, st1)
           st2 == setHoverNeighbors(a, st1, idx, FALSE)
       IN  Out(st2, tr1 \o render(st2))
  ELSE Out(setHoverNeighbors(a, st, NoNode, TRUE), << >>)

\* setSelectedNode(idx)
setSelectedNode(a, ev, st, idx) ==
  IF st.selectedNode # idx
  THEN LET st1 == [st EXCEPT !.selectedNode = idx]
       IN  IF idx # NoNode
           THEN LET st2 == setSelectedNeighbors(a, st1, idx, FALSE)
                IN  Out(st2, raiseEvent(ev, "nodeselect", getNodeByIndex(a, idx), st2) \o render(st2))
           ELSE LET st2 == setSelectedNeighbors(a, st1, NoNode, TRUE)
                IN  Out(st2, render(st2))
  ELSE Out(st, << >>)

\* variant of highlight(nodesIds) that keeps the active selection
highlightIdsKeepingSelection(a, ev, st, nodesIds) ==
  LET st1 == [st EXCEPT !.highlightedNodes =
                [k \in 1..Len(nodesIds) |-> a.graph.nodes[nodesIds[k]].index]]
  IN  Out(st1, render(st1))

\* highlight(nodesIds) with a list of ids of loaded nodes (an unknown id makes
\* graph.getNode(id).data throw before anything is assigned)
highlightIds(a, ev, st, nodesIds) ==
  LET st1 == [st EXCEPT !.highlightedNodes =
                [k \in 1..Len(nodesIds) |-> a.graph.nodes[nodesIds[k]].index]]
      sel == setSelectedNode(a, ev, st1, NoNode)
  IN  Out(sel.st, sel.tr \o render(sel.st))

\* variant of highlight() whose frame resets the model matrix
highlightNoneResettingTransform(st) ==
  LET st1 == [st EXCEPT !.highlightedNodes = << >>, !.transform = Mat3Create]
  IN  Out(st1, render(st1))

\* highlight() / highlight(null)
highlightNone(st) ==
  LET st1 == [st EXCEPT !.highlightedNodes = << >>]
  IN  Out(st1, render(st1))

\* ------------------------------------------------------------------------
\* Construction
\* ------------------------------------------------------------------------
\* this.state as the constructor creates it (projection is null until init)
InitialState ==
  [transform |-> Mat3Create, projection |-> << >>,
   mousePosition |-> << Zero, Zero >>, mouseDown |-> FALSE,
   hoveredNode |-> NoNode, hoverNeighbors |-> << >>,
   selectedNode |-> NoNode, selectedNeighbors |-> << >>,
   highlightedNodes |-> << >>, inAnimation |-> FALSE]

InitialApp ==
  [canvas |-> FALSE, regl |-> FALSE, zoom |-> FALSE, tooltip |-> FALSE,
   searchIndex |-> FALSE, graph |-> EmptyGraph, nodeIndex |-> << >>]

InitialSettings ==
  [showEdges |-> "true", showEdgesOnMove |-> "false", drawSelectedCircle |-> "true",
   defaultNodesOpacity |-> DefaultNodesOpacity]

\* variant of the opening checks without the one for `edges`
ConstructorErrorNoEdgesCheck(container, data, showEdgesOpt) ==
  IF ~container THEN "container"
  ELSE IF ~data.def THEN "data"
  ELSE IF ~data.hasNodes THEN "nodes"
  ELSE ""

\* the checks that open the constructor: the error thrown, "" for none
ConstructorError(container, data, showEdgesOpt) ==
  IF ~container THEN "container"
  ELSE IF ~data.def THEN "data"
  ELSE IF ~data.hasNodes THEN "nodes"
  ELSE IF (showEdgesOpt \in {"absent", "undefined"} \/ OptionOn(showEdgesOpt)) /\ ~data.hasEdges
       THEN "edges"
  ELSE ""

ValidationErrors == {"container", "data", "nodes", "edges"}

\* loadBuffers(): one edge buffer per weight bucket when showEdges is on
loadBuffers(m, showEdges) ==
  [nodes |-> m.nodesPositions,
   edges |-> IF showEdges THEN [k \in 1..Len(m.edgesPositionsByWeight) |-> m.edgesPositionsByWeight[k].key]
             ELSE << >>]

Init ==
  /\ phase = "new"
  /\ error = ""
  /\ settings = InitialSettings
  /\ app = InitialApp
  /\ matrices = EmptyMatrices
  /\ buffers = [nodes |-> << >>, edges |-> << >>]
  /\ searchIndex = << >>
  /\ tooltip = [created |-> FALSE, visible |-> FALSE, node |-> ""]
  /\ state = InitialState
  /\ events = [e \in EventNames |-> << >>]
  /\ registered = [e \in EventNames |-> << >>]
  /\ cursor = ""
  /\ trace = << >>

\* new ReglGraph(container, data, options) with options.showEdges and
\* options.defaultNodesOpacity: the checks, then init(data)
ConstructorWithOpacity(container, data, showEdgesOpt, opacity) ==
  /\ phase = "new"
  /\ LET err == ConstructorError(container, data, showEdgesOpt)
         merged == [settings EXCEPT !.showEdges = MergedShowEdges(showEdgesOpt),
                                    !.defaultNodesOpacity = opacity]
         showEdges == OptionOn(merged.showEdges)
         st == [InitialState EXCEPT !.projection = Mat3Projection(StageWidth, StageHeight)]
     IN  IF err # ""
         THEN /\ phase' = "threw"
              /\ error' = err
              /\ UNCHANGED << settings, app, matrices, buffers, searchIndex, tooltip,
                              state, events, registered, cursor, trace >>
         ELSE IF LoadThrows(data, showEdges)
         THEN \* init created the canvas and the tooltip, then loadData threw
              /\ phase' = "threw"
              /\ error' = "TypeError"
              /\ settings' = merged
              /\ app' = [app EXCEPT !.canvas = TRUE]
              /\ tooltip' = [tooltip EXCEPT !.created = TRUE]
              /\ state' = st
              /\ UNCHANGED << matrices, buffers, searchIndex, events, registered, cursor, trace >>
         ELSE LET loaded == loadData(data, showEdges, merged.defaultNodesOpacity)
              IN  /\ phase' = "ready"
                  /\ error' = ""
                  /\ settings' = merged
                  /\ app' = [app EXCEPT !.canvas = TRUE, !.regl = TRUE, !.zoom = TRUE,
                                        !.graph = loaded.graph, !.nodeIndex = loaded.nodeIndex]
                  /\ matrices' = loaded.matrices
                  /\ buffers' = loadBuffers(loaded.matrices, showEdges)
                  /\ searchIndex' = loaded.matrices.nodesPositions
                  /\ tooltip' = [tooltip EXCEPT !.created = TRUE]
                  /\ state' = st
                  /\ trace' = render(st)
                  /\ UNCHANGED << events, registered, cursor >>

\* new ReglGraph(container, data, options) without options.defaultNodesOpacity
Constructor(container, data, showEdgesOpt) ==
  ConstructorWithOpacity(container, data, showEdgesOpt, DefaultNodesOpacity)

\* ------------------------------------------------------------------------
\* Handlers and public methods
\* ------------------------------------------------------------------------
\* variant of handleMouseMove(event) that picks during a drag as well
handleMouseMovePickingInDrag(pos) ==
  /\ phase = "ready"
  /\ LET st0 == [state EXCEPT !.mousePosition = << Int2Num(pos[1]), Int2Num(pos[2]) >>]
         closestPoint == raycast(st0, searchIndex)
         hit == HitTruthy(closestPoint)
         node == IF hit THEN getNodeByIndex(app, closestPoint[1]) ELSE ""
         h == setHoveredNode(app, events, st0, IF hit THEN closestPoint[1] ELSE NoNode)
     IN  /\ state' = h.st
         /\ cursor' = IF hit THEN "pointer" ELSE "default"
         /\ tooltip' = [tooltip EXCEPT !.visible = hit, !.node = IF hit THEN node ELSE @]
         /\ trace' = h.tr \o << Entry("cursor", cursor', "", "", h.st),
                               Entry("tooltip", IF hit THEN "show" ELSE "hide", node, "", h.st) >>
  /\ UNCHANGED << phase, error, settings, app, matrices, buffers, searchIndex, events, registered >>

\* handleMouseMove(event)
handleMouseMove(pos) ==
  /\ phase = "ready"
  /\ LET st0 == [state EXCEPT !.mousePosition = << Int2Num(pos[1]), Int2Num(pos[2]) >>]
         closestPoint == raycast(st0, searchIndex)
     IN  IF ~st0.mouseDown
         THEN IF HitTruthy(closestPoint)
              THEN LET node == getNodeByIndex(app, closestPoint[1])
                       h == setHoveredNode(app, events, st0, closestPoint[1])
                   IN  /\ state' = h.st
                       /\ cursor' = "pointer"
                       /\ tooltip' = [tooltip EXCEPT !.visible = TRUE, !.node = node]
                       /\ trace' = h.tr \o << Entry("cursor", "pointer", "", "", h.st),
                                             Entry("tooltip", "show", node, "", h.st) >>
              ELSE LET h == setHoveredNode(app, events, st0, NoNode)
                   IN  /\ state' = h.st
                       /\ cursor' = "default"
                       /\ tooltip' = [tooltip EXCEPT !.visible = FALSE]
                       /\ trace' = h.tr \o << Entry("cursor", "default", "", "", h.st),
                                             Entry("tooltip", "hide", "", "", h.st) >>
         ELSE /\ state' = st0
              /\ trace' = << >>
              /\ UNCHANGED << cursor, tooltip >>
  /\ UNCHANGED << phase, error, settings, app, matrices, buffers, searchIndex, events, registered >>

\* handleClick(event)
handleClick ==
  /\ phase = "ready"
  /\ LET closestPoint == raycast(state, searchIndex)
         hl == highlightNone(state)
         idx == IF HitTruthy(closestPoint) THEN closestPoint[1] ELSE NoNode
         sel == setSelectedNode(app, events, hl.st, idx)
         node == IF HitTruthy(closestPoint) THEN getNodeByIndex(app, closestPoint[1]) ELSE "null"
     IN  /\ state' = sel.st
         /\ trace' = hl.tr \o sel.tr \o raiseEvent(events, "click", node, sel.st)
  /\ UNCHANGED << phase, error, settings, app, matrices, buffers, searchIndex, tooltip,
                  events, registered, cursor >>

\* handleZoom(event) with event.transform = {x, y, k}
handleZoom(t) ==
  /\ phase = "ready"
  /\ LET st1 == [state EXCEPT
                   !.transform = updateTransform(Int2Num(t[1]), Int2Num(t[2]), Int2Num(t[3])),
                   !.projection = Mat3Projection(StageWidth, StageHeight)]
         tr == render(st1) \o raiseEvent(events, "zoom", "transform", st1)
     IN  /\ state' = st1
         /\ cursor' = IF st1.mouseDown THEN "move" ELSE cursor
         /\ trace' = IF st1.mouseDown THEN tr \o << Entry("cursor", "move", "", "", st1) >> ELSE tr
  /\ UNCHANGED << phase, error, settings, app, matrices, buffers, searchIndex, tooltip, events, registered >>

\* handleMouseDown(event)
handleMouseDown ==
  /\ phase = "ready"
  /\ state' = [state EXCEPT !.mouseDown = TRUE]
  /\ trace' = << >>
  /\ UNCHANGED << phase, error, settings, app, matrices, buffers, searchIndex, tooltip,
                  events, registered, cursor >>

\* handleMouseUp(event): the "end" of a zoom gesture
handleMouseUp ==
  /\ phase = "ready"
  /\ LET st1 == [state EXCEPT !.mouseDown = FALSE, !.inAnimation = FALSE]
     IN  /\ state' = st1
         /\ trace' = render(st1)
  /\ UNCHANGED << phase, error, settings, app, matrices, buffers, searchIndex, tooltip,
                  events, registered, cursor >>

\* reset(): starts the transition back to the identity transform
reset ==
  /\ phase = "ready"
  /\ state' = [state EXCEPT !.inAnimation = TRUE]
  /\ trace' = << >>
  /\ UNCHANGED << phase, error, settings, app, matrices, buffers, searchIndex, tooltip,
                  events, registered, cursor >>

\* a mousedown on the canvas: handleMouseDown runs first, then the listener of
\* the zoom behaviour, which interrupts a running reset transition; the end
\* of that transition is delivered to handleMouseUp
canvasMouseDown ==
  /\ phase = "ready"
  /\ LET st1 == [state EXCEPT !.mouseDown = TRUE]
         st2 == [st1 EXCEPT !.mouseDown = FALSE, !.inAnimation = FALSE]
     IN  IF st1.inAnimation
         THEN state' = st2 /\ trace' = render(st2)
         ELSE state' = st1 /\ trace' = << >>
  /\ UNCHANGED << phase, error, settings, app, matrices, buffers, searchIndex, tooltip,
                  events, registered, cursor >>

\* lists of at most n ids of loaded nodes
IdLists(ids, n) == UNION { [1..k -> ids] : k \in 0..n }

\* highlight(nodesIds)
highlight(nodesIds) ==
  /\ phase = "ready"
  /\ LET h == highlightIds(app, events, state, nodesIds)
     IN  /\ state' = h.st
         /\ trace' = h.tr
  /\ UNCHANGED << phase, error, settings, app, matrices, buffers, searchIndex, tooltip,
                  events, registered, cursor >>

\* on(eventName, handler)
onHandler(eventName, handler) ==
  /\ phase = "ready"
  /\ events' = on(events, eventName, handler)
  /\ registered' = [registered EXCEPT ![eventName] = Append(@, handler)]
  /\ trace' = << >>
  /\ UNCHANGED << phase, error, settings, app, matrices, buffers, searchIndex, tooltip,
                  state, cursor >>

\* highlight() / highlight(null)
highlightNull ==
  /\ phase = "ready"
  /\ LET h == highlightNone(state)
     IN  /\ state' = h.st
         /\ trace' = h.tr
  /\ UNCHANGED << phase, error, settings, app, matrices, buffers, searchIndex, tooltip,
                  events, registered, cursor >>

\* getAppInstance(option): a handle of this.app is TRUE for a live instance
\* and FALSE for null; "null" stands for the default argument and for the null
\* returned for a name that is no key of this.app
getAppInstance(a, option) ==
  IF option = "null" THEN a
  ELSE IF option \in DOMAIN a THEN a[option]
  ELSE "null"

\* getOption(option): "null" stands for the default argument and for the
\* null returned for a name that is no key of this.settings
getOption(sets, option) ==
  IF option = "null" THEN sets
  ELSE IF option \in DOMAIN sets THEN sets[option]
  ELSE "null"

\* ------------------------------------------------------------------------
\* Frames
\* ------------------------------------------------------------------------
\* the point vertex shader: the alpha of nodeColor for a vertex whose
\* position.z is z, under the uniforms hovered and highlighted
pointVertexAlpha(color, z, hovered, highlighted) ==
  IF hovered # NoNode /\ z # hovered THEN Num(1, 5)
  ELSE IF highlighted THEN Num(1, 5)
  ELSE color[4]

\* variant of render() that draws the nodes before the edges
renderDrawsNodesFirst(sets, bufs, mats, s) ==
  LET showEdges == \/ OptionOn(getOption(sets, "showEdges"))
                   \/ s.hoveredNode # NoNode
                   \/ s.selectedNode # NoNode
      noEdgesRestrictions == OptionOn(getOption(sets, "showEdgesOnMove")) \/ ~s.mouseDown
      points(call, pass, nodes, hovered, highlighted) ==
        [call |-> call, pass |-> pass, nodes |-> nodes, length |-> Len(nodes),
         hovered |-> hovered, highlighted |-> highlighted]
      n == Cardinality(DOMAIN mats.nodesPositions)
  IN  << [call |-> "clear", pass |-> "clear"],
         points("drawPoints", "nodes", [k \in 1..n |-> k - 1], s.hoveredNode,
                Len(s.highlightedNodes) > 0) >>
      \o (IF showEdges /\ noEdgesRestrictions
          THEN [k \in 1..Len(bufs.edges) |->
                  [call |-> "drawEdges", pass |-> "edges", width |-> bufs.edges[k], segments |-> 1]]
          ELSE << >>)
      \o (IF s.hoveredNode # NoNode
          THEN << points("drawPoints", "hovered", << s.hoveredNode >> \o s.hoverNeighbors,
                         NoNode, FALSE) >>
          ELSE << >>)
      \o (IF s.selectedNode # NoNode
          THEN << points("drawPoints", "selected", << s.selectedNode >> \o s.selectedNeighbors,
                         NoNode, FALSE),
                  points("drawCircle", "circle", << s.selectedNode >>, NoNode, FALSE) >>
          ELSE << >>)
      \o (IF Len(s.highlightedNodes) > 0
          THEN << points("drawPoints", "highlighted", s.highlightedNodes, NoNode, FALSE) >>
          ELSE << >>)

\* render(): the calls one frame makes on regl, in order, from the options,
\* the buffers, the shader arrays and the state s the frame is drawn from.
\* A drawEdges call carries its width and its instance count (segments); a
\* drawPoints call the node indices of the buffer it draws.
renderDraws(sets, bufs, mats, s) ==
  LET showEdgesOnMove == OptionOn(getOption(sets, "showEdgesOnMove"))
      showEdgesOption == OptionOn(getOption(sets, "showEdges"))
      noEdgesRestrictions == IF showEdgesOnMove THEN TRUE ELSE ~s.mouseDown
      showEdges == showEdgesOption \/ s.hoveredNode # NoNode \/ s.selectedNode # NoNode
      get(key) == CHOOSE b \in { mats.edgesPositionsByWeight[k] :
                                   k \in 1..Len(mats.edgesPositionsByWeight) } : b.key = key
      points(call, pass, nodes, colors, hovered, highlighted) ==
        [call |-> call, pass |-> pass, nodes |-> nodes, length |-> Len(nodes), colors |-> colors,
         hovered |-> hovered, highlighted |-> highlighted]
      n == Cardinality(DOMAIN mats.nodesPositions)
      \* matrices.nodeColors[i]
      own(nodes) == [k \in 1..Len(nodes) |-> mats.nodeColors[nodes[k]]]
      \* [...matrices.nodeColors[i].slice(0, 3), 1.0]
      opaque(nodes) ==
        [k \in 1..Len(nodes) |->
           << mats.nodeColors[nodes[k]][1], mats.nodeColors[nodes[k]][2],
              mats.nodeColors[nodes[k]][3], One >>]
      all == [k \in 1..n |-> k - 1]
      hover == << s.hoveredNode >> \o s.hoverNeighbors
      selection == << s.selectedNode >> \o s.selectedNeighbors
  IN  << [call |-> "clear", pass |-> "clear"] >>
      \o (IF showEdges /\ noEdgesRestrictions
          THEN [k \in 1..Len(bufs.edges) |->
                  [call |-> "drawEdges", pass |-> "edges", width |-> bufs.edges[k],
                   segments |-> Len(get(bufs.edges[k]).points) \div 2]]
          ELSE << >>)
      \o << points("drawPoints", "nodes", all, own(all), s.hoveredNode,
                   Len(s.highlightedNodes) > 0) >>
      \o (IF s.hoveredNode # NoNode
          THEN << points("drawPoints", "hovered", hover, opaque(hover), NoNode, FALSE) >>
          ELSE << >>)
      \o (IF s.selectedNode # NoNode
          THEN << points("drawPoints", "selected", selection, opaque(selection), NoNode, FALSE) >>
               \o (IF OptionOn(getOption(sets, "drawSelectedCircle"))
                   THEN << points("drawCircle", "circle", << s.selectedNode >>, << >>, NoNode, FALSE) >>
                   ELSE << >>)
          ELSE << >>)
      \o (IF Len(s.highlightedNodes) > 0
          THEN << points("drawPoints", "highlighted", s.highlightedNodes, own(s.highlightedNodes),
                         NoNode, FALSE) >>
          ELSE << >>)

\* variant of setOption(option, value) that stores and renders without
\* looking at the value
setOptionUnchecked(option, value) ==
  /\ phase = "ready"
  /\ IF option \in DOMAIN settings
     THEN /\ settings' = [settings EXCEPT ![option] = value]
          /\ trace' = render(state)
     ELSE /\ trace' = << >>
          /\ UNCHANGED settings
  /\ UNCHANGED << phase, error, app, matrices, buffers, searchIndex, tooltip,
                  state, events, registered, cursor >>

\* setOption(option, value)
setOption(option, value) ==
  /\ phase = "ready"
  /\ IF option \in DOMAIN settings /\ value # "undefined"
     THEN /\ settings' = [settings EXCEPT ![option] = value]
          /\ trace' = render(state)
     ELSE /\ trace' = << >>
          /\ UNCHANGED settings
  /\ UNCHANGED << phase, error, app, matrices, buffers, searchIndex, tooltip,
                  state, events, registered, cursor >>

\* option names and values passed to setOption / getOption
OptionNames == {"showEdges", "showEdgesOnMove", "drawSelectedCircle", "notAnOption"}
OptionValues == {"true", "false", "undefined"}

\* ------------------------------------------------------------------------
\* Actions
\* ------------------------------------------------------------------------
\* event names and registrations the on() calls of the model draw from
OnNames == {"nodeover", "click"}
Registrations(reg) == Len(reg["nodeover"]) + Len(reg["click"])

\* datasets that load into a graph, with the edges shown and not shown
GraphDatasets == { Data(NodesXY, EdgesStar) }
GraphOptions == {"absent", "false"}

Construct == \E c \in BOOLEAN, d \in Datasets, o \in ShowEdgesOptions : Constructor(c, d, o)
ConstructGraph == \E d \in GraphDatasets, o \in GraphOptions : Constructor(TRUE, d, o)
\* options.defaultNodesOpacity: the default and one half
NodeOpacities == { DefaultNodesOpacity, Num(1, 2) }
ConstructOpacity ==
  \E opacity \in NodeOpacities :
    ConstructorWithOpacity(TRUE, Data(NodesXY, EdgesStar), "absent", opacity)
MouseMove == \E pos \in Cursors : handleMouseMove(pos)
MouseMovePick == \E pos \in PickCursors : handleMouseMove(pos)
MouseDown == handleMouseDown
MouseUp == handleMouseUp
Click == handleClick
Zoom == \E t \in ZoomTransforms : handleZoom(t)
ZoomAny == \E t \in PanZooms : handleZoom(t)
Reset == reset
Highlight == \E ids \in IdLists(DOMAIN app.graph.nodes, MaxHighlight) : highlight(ids)
HighlightNull == highlightNull
SetOption == \E option \in OptionNames, value \in OptionValues : setOption(option, value)
On ==
  /\ Registrations(registered) < MaxHandlers
  /\ \E e \in OnNames, h \in Handlers : onHandler(e, h)

\* ------------------------------------------------------------------------
\* Spec: a graph is constructed, then pointer events, zoom gestures and
\* highlight calls arrive in any order
\* ------------------------------------------------------------------------
Next ==
  \/ ConstructGraph
  \/ MouseMove
  \/ MouseDown
  \/ MouseUp
  \/ Click
  \/ Zoom
  \/ Highlight
  \/ HighlightNull

Spec == Init /\ [][Next]_vars

\* ------------------------------------------------------------------------
\* SpecLoad: any constructor call, then pointer moves and clicks
\* ------------------------------------------------------------------------
NextLoad ==
  \/ Construct
  \/ MouseMove
  \/ Click

SpecLoad == Init /\ [][NextLoad]_vars

\* ------------------------------------------------------------------------
\* SpecEvents: handlers are registered at any time between pointer moves
\* and clicks
\* ------------------------------------------------------------------------
NextEvents ==
  \/ ConstructGraph
  \/ On
  \/ MouseMove
  \/ Click

SpecEvents == Init /\ [][NextEvents]_vars

\* ------------------------------------------------------------------------
\* SpecPick: pointer moves around a node between and during zoom gestures
\* ------------------------------------------------------------------------
NextPick ==
  \/ ConstructGraph
  \/ MouseMovePick
  \/ MouseDown
  \/ MouseUp
  \/ Zoom
  \/ Reset

SpecPick == Init /\ [][NextPick]_vars

\* ------------------------------------------------------------------------
\* SpecOptions: options are changed between pointer moves, clicks and drags
\* ------------------------------------------------------------------------
NextOptions ==
  \/ ConstructGraph
  \/ SetOption
  \/ MouseMove
  \/ MouseDown
  \/ MouseUp
  \/ Click

SpecOptions == Init /\ [][NextOptions]_vars

\* ------------------------------------------------------------------------
\* SpecOpacity: graphs loaded with a node opacity, then hovered, selected
\* and highlighted
\* ------------------------------------------------------------------------
NextOpacity ==
  \/ ConstructOpacity
  \/ MouseMove
  \/ Click
  \/ Highlight

SpecOpacity == Init /\ [][NextOpacity]_vars

\* ------------------------------------------------------------------------
\* SpecGesture: resets, drags that may interrupt a reset, zooms and moves
\* ------------------------------------------------------------------------
NextGesture ==
  \/ ConstructGraph
  \/ Reset
  \/ canvasMouseDown
  \/ MouseUp
  \/ MouseMove
  \/ Zoom

SpecGesture == Init /\ [][NextGesture]_vars

\* ------------------------------------------------------------------------
\* SpecTransform: pointer moves and clicks under a range of pans and zooms
\* ------------------------------------------------------------------------
NextTransform ==
  \/ ConstructGraph
  \/ ZoomAny
  \/ MouseMove
  \/ Click

SpecTransform == Init /\ [][NextTransform]_vars

\* ------------------------------------------------------------------------
\* Properties
\* ------------------------------------------------------------------------
\* the notifications among `names` an operation raised, in order, as
\* << event name, argument >>
RECURSIVE Raised(_, _)
Raised(tr, names) ==
  IF tr = << >> THEN << >>
  ELSE (IF Head(tr).kind = "raise" /\ Head(tr).name \in names
        THEN << << Head(tr).name, Head(tr).arg >> >> ELSE << >>)
       \o Raised(Tail(tr), names)

\* C1: the constructor throws a validation error, with no canvas, graph
\* model or state created, exactly when the container is absent, the data is
\* absent, the data has no `nodes`, or showEdges is undefined or truthy and
\* the data has no `edges`; with showEdges false a dataset without `edges`
\* passes the validation.
C1_ValidationErrors ==
  [][\A c \in BOOLEAN, d \in Datasets, o \in ShowEdgesOptions :
       Constructor(c, d, o) =>
         LET invalid == \/ ~c
                        \/ ~d.def
                        \/ ~d.hasNodes
                        \/ o \in {"absent", "undefined", "true"} /\ ~d.hasEdges
         IN  /\ invalid <=> (phase' = "threw" /\ error' \in ValidationErrors)
             /\ invalid => /\ app' = InitialApp
                           /\ state' = InitialState
                           /\ matrices' = EmptyMatrices
                           /\ searchIndex' = << >>
                           /\ ~tooltip'.created
             /\ (c /\ d.def /\ d.hasNodes /\ o = "false" /\ ~d.hasEdges)
                  => error' \notin ValidationErrors]_vars

\* C1 witness: the constructor threw for the missing `edges` and left nothing
\* created
C1_Witness == phase = "threw" /\ error = "edges" /\ ~app.canvas /\ state = InitialState

\* C2: after loading n nodes with distinct ids the position, colour and size
\* arrays have n entries each, slot i holds the i-th input node's values with
\* i as third component of the position, nodeIndex maps i to the i-th id and
\* the graph node with that id has data.index = i.
C2_IndexLookup ==
  [][\A c \in BOOLEAN, d \in Datasets, o \in ShowEdgesOptions :
       (Constructor(c, d, o) /\ phase' = "ready") =>
         LET n == Len(d.nodes)
         IN  /\ DOMAIN matrices'.nodesPositions = 0..(n - 1)
             /\ DOMAIN matrices'.nodeColors = 0..(n - 1)
             /\ DOMAIN matrices'.sizes = 0..(n - 1)
             /\ \A i \in 0..(n - 1) :
                  /\ matrices'.nodesPositions[i] = NodePosition(d.nodes, i)
                  /\ matrices'.nodesPositions[i][3] = i
                  /\ matrices'.nodeColors[i] = NodeColor(d.nodes[i + 1], DefaultNodesOpacity)
                  /\ matrices'.sizes[i] = NodeSize(d.nodes, i)
                  /\ app'.nodeIndex[i] = d.nodes[i + 1].id
                  /\ app'.graph.nodes[d.nodes[i + 1].id].index = i]_vars

\* C3: whenever highlightedNodes is non-empty selectedNode is none;
\* highlight(ids) leaves selectedNode none and selectedNeighbors empty; a click
\* that selects a node leaves highlightedNodes empty.
C3_HighlightExcludesSelection ==
  [][/\ state.highlightedNodes # << >> => state.selectedNode = NoNode
     /\ state'.highlightedNodes # << >> => state'.selectedNode = NoNode
     /\ Highlight => state'.selectedNode = NoNode /\ state'.selectedNeighbors = << >>
     /\ (Click /\ state'.selectedNode # NoNode) => state'.highlightedNodes = << >>]_vars

\* C3 witness: a highlight call that found a selection active and cleared it
\* (one frame from clearing the selection, one from the highlight)
C3_Witness ==
  /\ state.highlightedNodes # << >>
  /\ state.selectedNode = NoNode
  /\ Len(trace) = 2
  /\ \A k \in 1..2 : trace[k].kind = "render"

\* C4: non-drag moves resolving to node A, then to no node, then to node B
\* raise exactly nodeover(A), nodeout(A), nodeover(B) in that order, and a
\* move resolving to the hover target of the move before raises neither:
\* step by step, a move onto a node from no hover raises exactly nodeover of
\* that node, a move off a hovered node raises exactly nodeout of it, and a
\* move that keeps the target raises nothing.
C4_HoverNotifications ==
  [][\A pos \in Cursors :
       (handleMouseMove(pos) /\ ~state.mouseDown) =>
         LET hit == raycast(state', searchIndex)
             old == state.hoveredNode
             notes == Raised(trace', {"nodeover", "nodeout"})
         IN  IF hit = << >>
             THEN notes = IF old = NoNode THEN << >>
                          ELSE << << "nodeout", getNodeByIndex(app, old) >> >>
             ELSE IF hit[1] = old THEN notes = << >>
             ELSE old = NoNode =>
                    notes = << << "nodeover", getNodeByIndex(app, hit[1]) >> >>]_vars

\* the handlers called from position k of tr on, as << handler, event, argument >>
RECURSIVE CallsAt(_, _)
CallsAt(tr, k) ==
  IF k > Len(tr) \/ tr[k].kind # "call" THEN << >>
  ELSE << << tr[k].handler, tr[k].name, tr[k].arg >> >> \o CallsAt(tr, k + 1)

\* C5: a raised event calls every function registered with on() for its
\* name, once per registration, with the event argument, in registration
\* order, and calls no handler registered for another name.
C5_HandlersInRegistrationOrder ==
  \A k \in 1..Len(trace) :
    /\ trace[k].kind = "raise" =>
         LET fns == SelectSeq(registered[trace[k].name], IsFunction)
         IN  CallsAt(trace, k + 1) =
               [j \in 1..Len(fns) |-> << fns[j], trace[k].name, trace[k].arg >>]
    /\ trace[k].kind = "call" => k > 1 /\ trace[k - 1].kind \in {"raise", "call"}

\* C5 witness: an event was raised whose name has two different functions
\* registered, and both were called
C5_Witness ==
  \E k \in 1..Len(trace) :
    /\ trace[k].kind = "raise"
    /\ Len(CallsAt(trace, k + 1)) = 2
    /\ CallsAt(trace, k + 1)[1][1] # CallsAt(trace, k + 1)[2][1]

\* C6: a click whose raycast resolves to node i leaves selectedNode = i and
\* selectedNeighbors = the neighbours of node i, for every i in 0..n-1; a
\* click that resolves to no node leaves selectedNode none and
\* selectedNeighbors empty.
C6_ClickSelects ==
  [][Click =>
       LET hit == raycast(state, searchIndex)
       IN  IF hit # << >>
           THEN /\ state'.selectedNode = hit[1]
                /\ state'.selectedNeighbors = getNodeNeighbors(app, NodeIndexGet(app, hit[1]))
           ELSE /\ state'.selectedNode = NoNode
                /\ state'.selectedNeighbors = << >>]_vars

\* C7: a click that resolves to a node raises exactly one nodeselect with
\* that node's record and then exactly one click with that record; a click
\* that resolves to no node raises exactly one click with node null.
C7_ClickNotifications ==
  [][Click =>
       LET hit == raycast(state, searchIndex)
           notes == Raised(trace', {"nodeselect", "click"})
       IN  IF hit # << >>
           THEN notes = << << "nodeselect", getNodeByIndex(app, hit[1]) >>,
                           << "click", getNodeByIndex(app, hit[1]) >> >>
           ELSE notes = << << "click", "null" >> >>]_vars

\* C8: a move with no drag active whose raycast resolves to node i leaves
\* hoveredNode = i, the tooltip shown and the cursor 'pointer', for every i in
\* 0..n-1; one that resolves to no node leaves hoveredNode none,
\* hoverNeighbors empty, the tooltip hidden and the cursor 'default'.
C8_MoveHovers ==
  [][\A pos \in Cursors :
       (handleMouseMove(pos) /\ ~state.mouseDown) =>
         LET hit == raycast(state', searchIndex)
         IN  IF hit # << >>
             THEN /\ state'.hoveredNode = hit[1]
                  /\ tooltip'.visible
                  /\ cursor' = "pointer"
             ELSE /\ state'.hoveredNode = NoNode
                  /\ state'.hoverNeighbors = << >>
                  /\ ~tooltip'.visible
                  /\ cursor' = "default"]_vars

\* C9: raycast returns no node farther from the cursor's world position than
\* the half-extent of its range query, and returns a node located exactly at
\* the cursor's world position whenever there is one.
C9_PickWithinRadius ==
  phase = "ready" =>
    LET mouse == getScatterGlPos(state)
        closest == raycast(state, searchIndex)
        atCursor == {i \in DOMAIN searchIndex :
                       /\ NumEq(searchIndex[i][1], mouse[1])
                       /\ NumEq(searchIndex[i][2], mouse[2])}
    IN  /\ closest # << >> =>
             Le(Dist2(searchIndex[closest[1]][1], searchIndex[closest[1]][2], mouse[1], mouse[2]),
                Mul(XNormalized, XNormalized))
        /\ atCursor # {} => closest # << >> /\ closest[1] \in atCursor

\* C10: a dataset whose nodes give numeric x and y (0 included) and no
\* `position` loads without error; a(0,0), b(100,0) with the edge a->b of
\* weight 1 gives 2 position slots and 1 edge bucket, and a pick at node a's
\* location resolves to node a.
C10_DirectCoordinatesLoad ==
  [][\A c \in BOOLEAN, d \in Datasets, o \in ShowEdgesOptions :
       (/\ Constructor(c, d, o)
        /\ ConstructorError(c, d, o) = ""
        /\ \A k \in 1..Len(d.nodes) :
             IsNum(d.nodes[k].x) /\ IsNum(d.nodes[k].y) /\ ~d.nodes[k].position.def) =>
         /\ phase' = "ready"
         /\ (d = Data(NodesZero, EdgesAB) /\ o = "absent") =>
              /\ DOMAIN matrices'.nodesPositions = 0..1
              /\ Len(matrices'.edgesPositionsByWeight) = 1
              /\ raycast([state' EXCEPT !.mousePosition =
                            << matrices'.nodesPositions[0][1], matrices'.nodesPositions[0][2] >>],
                         searchIndex') = << 0 >>]_vars

\* C11: for a node set with non-zero x and y extents the load scales both
\* axes by one factor, the smaller of (width - 2 margin) / x extent and
\* (height - 2 margin) / y extent, and centres each axis (the same margin on
\* both sides); x in [0,100], y in [0,200] on 500x500 with margin 50 gives
\* factor 2 and the x range [150,350].
C11_UniformScaling ==
  [][\A c \in BOOLEAN, d \in Datasets, o \in ShowEdgesOptions :
       (Constructor(c, d, o) /\ phase' = "ready") =>
         LET n == Len(d.nodes)
             xs == [k \in 1..n |-> NodeX(d.nodes[k])]
             ys == [k \in 1..n |-> NodeY(d.nodes[k])]
             ex == NodeExtent(xs)
             ey == NodeExtent(ys)
             pos == matrices'.nodesPositions
             px == NodeExtent([k \in 1..n |-> pos[k - 1][1]])
             py == NodeExtent([k \in 1..n |-> pos[k - 1][2]])
             innerW == Int2Num(StageWidth - 2 * GraphMargin)
             innerH == Int2Num(StageHeight - 2 * GraphMargin)
             fitX == Div(innerW, Sub(ex[2], ex[1]))
             fitY == Div(innerH, Sub(ey[2], ey[1]))
             factor == IF Lt(fitY, fitX) THEN fitY ELSE fitX
         IN  (Gt(ex[2], ex[1]) /\ Gt(ey[2], ey[1])) =>
               /\ \A i, j \in 0..(n - 1) :
                    /\ Sub(pos[j][1], pos[i][1]) = Mul(factor, Sub(xs[j + 1], xs[i + 1]))
                    /\ Sub(pos[j][2], pos[i][2]) = Mul(factor, Sub(ys[j + 1], ys[i + 1]))
               /\ px[1] = Sub(Int2Num(StageWidth), px[2])
               /\ py[1] = Sub(Int2Num(StageHeight), py[2])
               /\ d.nodes = NodesPosition =>
                    factor = Int2Num(2) /\ px = << Int2Num(150), Int2Num(350) >>]_vars

\* C12: setOption(name, value) with a name of the settings and a defined
\* value stores the value, so that getOption(name) returns it, and renders
\* exactly one frame; with another name or an undefined value no setting
\* changes and no frame is rendered; getOption() returns all the settings and
\* getOption of an unknown name returns null.
C12_SetOptionStoresAndRenders ==
  [][\A option \in OptionNames, value \in OptionValues :
       setOption(option, value) =>
         LET frames == SelectSeq(trace', LAMBDA e : e.kind = "render")
         IN  /\ IF option \in DOMAIN settings /\ value # "undefined"
                THEN /\ getOption(settings', option) = value
                     /\ \A other \in DOMAIN settings \ {option} :
                          getOption(settings', other) = getOption(settings, other)
                     /\ Len(frames) = 1
                ELSE /\ settings' = settings
                     /\ Len(frames) = 0
             /\ getOption(settings', "null") = settings'
             /\ getOption(settings', "notAnOption") = "null"]_vars

\* C12 witness: showEdgesOnMove, off by default, was switched on by
\* setOption, which rendered one frame
C12_Witness ==
  /\ phase = "ready"
  /\ settings.showEdgesOnMove = "true"
  /\ Len(trace) = 1
  /\ trace[1].kind = "render"

\* C13: after construction getAppInstance('regl'), getAppInstance('graph')
\* and getAppInstance('tooltip') each return the live instance created by
\* init, never null; getAppInstance() returns the whole handle table and an
\* unknown name returns null.
C13_AppInstances ==
  phase = "ready" =>
    /\ getAppInstance(app, "regl") = TRUE
    /\ getAppInstance(app, "graph") = app.graph
    /\ app.graph # EmptyGraph
    /\ tooltip.created
    /\ getAppInstance(app, "tooltip") = TRUE
    /\ getAppInstance(app, "null") = app
    /\ getAppInstance(app, "notAnInstance") = "null"

\* C14: for every pan and non-zero zoom set by updateTransform, a point
\* mapped to the screen along the render path (projection x transform, then
\* the viewport) and back along the picking path (getNdcX / getNdcY, then the
\* inverse of projection x transform) is the point itself.
C14_ScreenWorldRoundTrip ==
  (phase = "ready" /\ Truthy(state.transform[1])) =>
    \A i \in DOMAIN searchIndex :
      LET p == << searchIndex[i][1], searchIndex[i][2] >>
          pixel == GlToPixel(VertexGlPosition(state, p))
      IN  getScatterGlPos([state EXCEPT !.mousePosition = pixel]) = p

\* C14 witness: the graph is panned and zoomed (x = 40, y = -30, k = 3) and
\* the pointer has moved since
C14_Witness ==
  /\ phase = "ready"
  /\ state.transform = updateTransform(Int2Num(40), Int2Num(-30), Int2Num(3))
  /\ state.mousePosition # << Zero, Zero >>

\* C15: on every change of hoveredNode, nodeover is raised if and only if
\* the old value was none and the new value is a node, and nodeout is raised
\* if and only if the new value is none; a change from one node directly to
\* another raises no nodeover.
C15_WatcherNotifications ==
  [][state'.hoveredNode # state.hoveredNode =>
       LET notes == Raised(trace', {"nodeover", "nodeout"})
           over == \E k \in 1..Len(notes) : notes[k][1] = "nodeover"
           out == \E k \in 1..Len(notes) : notes[k][1] = "nodeout"
       IN  /\ over <=> (state.hoveredNode = NoNode /\ state'.hoveredNode # NoNode)
           /\ out <=> state'.hoveredNode = NoNode]_vars

\* the indices of the nodes joined to node i by an edge in either direction
Joined(a, i) ==
  { j \in DOMAIN a.nodeIndex :
      \E k \in 1..Len(a.graph.links) :
        LET l == a.graph.links[k]
        IN  \/ l.fromId = a.nodeIndex[i] /\ l.toId = a.nodeIndex[j]
            \/ l.toId = a.nodeIndex[i] /\ l.fromId = a.nodeIndex[j] }

SeqRange(s) == { s[k] : k \in 1..Len(s) }

\* C16: neighbour sets are never stale: in every state, hoveredNode = none
\* implies hoverNeighbors is empty and hoveredNode = i implies hoverNeighbors
\* is exactly the set of nodes joined to i by an edge in either direction; the
\* same holds for selectedNode and selectedNeighbors.
C16_NeighboursNeverStale ==
  phase = "ready" =>
    /\ state.hoveredNode = NoNode => state.hoverNeighbors = << >>
    /\ state.hoveredNode # NoNode =>
         SeqRange(state.hoverNeighbors) = Joined(app, state.hoveredNode)
    /\ state.selectedNode = NoNode => state.selectedNeighbors = << >>
    /\ state.selectedNode # NoNode =>
         SeqRange(state.selectedNeighbors) = Joined(app, state.selectedNode)

\* C17: when a non-drag pointer move changes the hover target, hoverNeighbors
\* is set to the new target's neighbours before hoveredNode is updated and
\* before the frame is rendered: every nodeover/nodeout handler called and
\* every frame rendered during the move that observes the new hoveredNode
\* observes the new target's neighbour set with it.
C17_NeighboursBeforeHover ==
  [][(~state.mouseDown /\ state'.hoveredNode # state.hoveredNode) =>
       \A k \in 1..Len(trace') :
         LET e == trace'[k]
         IN  (/\ \/ e.kind = "render"
                 \/ e.kind = "call" /\ e.name \in {"nodeover", "nodeout"}
              /\ e.snap.hoveredNode = state'.hoveredNode)
             => e.snap.hoverNeighbors = state'.hoverNeighbors]_vars

\* C18: while a drag is active (mouseDown is true), a pointer move changes
\* only the recorded mouse position: hoveredNode, hoverNeighbors, selectedNode,
\* selectedNeighbors and highlightedNodes keep their values, nothing is raised
\* or rendered, and the cursor and the tooltip are left as they are.
C18_DragMoveOnlyRecordsPosition ==
  [][(state.mouseDown /\ state'.mousePosition # state.mousePosition) =>
       /\ state' = [state EXCEPT !.mousePosition = state'.mousePosition]
       /\ trace' = << >>
       /\ tooltip' = tooltip
       /\ cursor' = cursor]_vars

\* a drag that started over node b has moved to empty space: b is still hovered
C18_Witness ==
  /\ phase = "ready"
  /\ state.mouseDown
  /\ state.hoveredNode = 1
  /\ state.mousePosition = << Int2Num(350), Int2Num(450) >>
  /\ tooltip.visible
  /\ trace = << >>

\* the frames rendered by the last operation: the draw calls of each
Frames ==
  LET rendered == SelectSeq(trace, LAMBDA e : e.kind = "render")
  IN  [k \in 1..Len(rendered) |-> [snap |-> rendered[k].snap,
                                   draws |-> renderDraws(settings, buffers, matrices, rendered[k].snap)]]

\* the edges of the loaded data whose width is w
EdgesOfWidth(w) == { k \in 1..Len(app.graph.links) : app.graph.links[k].weight = w }

\* C19: in every rendered frame, edge draw calls are issued if and only if
\* (the showEdges option is on, or a node is hovered, or a node is selected)
\* and (showEdgesOnMove is on or no drag is active); when issued there is
\* exactly one call per weight bucket, carrying the bucket's key as width and
\* the number of edges in that bucket as instance count.
C19_EdgeDrawCalls ==
  phase = "ready" =>
    \A k \in 1..Len(Frames) :
      LET s == Frames[k].snap
          edgeCalls == SelectSeq(Frames[k].draws, LAMBDA d : d.call = "drawEdges")
          enabled == \/ settings.showEdges = "true"
                     \/ s.hoveredNode # NoNode
                     \/ s.selectedNode # NoNode
          unrestricted == settings.showEdgesOnMove = "true" \/ ~s.mouseDown
      IN  /\ edgeCalls # << >> <=> (enabled /\ unrestricted)
          /\ edgeCalls # << >> =>
               /\ \A i, j \in 1..Len(edgeCalls) : edgeCalls[i].width = edgeCalls[j].width => i = j
               /\ \A i \in 1..Len(edgeCalls) :
                    /\ EdgesOfWidth(edgeCalls[i].width) # {}
                    /\ edgeCalls[i].segments = Cardinality(EdgesOfWidth(edgeCalls[i].width))
               /\ \A e \in 1..Len(app.graph.links) :
                    \E i \in 1..Len(edgeCalls) : edgeCalls[i].width = app.graph.links[e].weight

\* the place of a draw call in the order of a frame
PassRank(pass) ==
  CASE pass = "clear" -> 0
    [] pass = "edges" -> 1
    [] pass = "nodes" -> 2
    [] pass = "hovered" -> 3
    [] pass = "selected" -> 4
    [] pass = "highlighted" -> 5
    [] pass = "circle" -> 6

\* C20: within every frame the draw order is fixed: clear first, then all
\* edge draw calls, then the single base node draw, then the emphasis
\* overlays (hovered, selected, highlighted), and the selection ring, when
\* drawn, is the last draw of the frame; no edge call follows the base node
\* call and no base node call follows an overlay.
C20_DrawOrder ==
  phase = "ready" =>
    \A k \in 1..Len(Frames) :
      LET d == Frames[k].draws
      IN  /\ d[1].call = "clear"
          /\ \A i \in 2..Len(d) : d[i].call # "clear"
          /\ Cardinality({ i \in 1..Len(d) : d[i].pass = "nodes" }) = 1
          /\ \A i, j \in 1..Len(d) : i < j => PassRank(d[i].pass) <= PassRank(d[j].pass)
          /\ \A i \in 1..Len(d) : d[i].call = "drawCircle" => i = Len(d)

\* C20 witness: a frame with edges, the base nodes, the hovered and the
\* selected overlay and the selection ring
C20_Witness ==
  /\ phase = "ready"
  /\ \E k \in 1..Len(Frames) :
       LET d == Frames[k].draws
       IN  \A pass \in {"edges", "nodes", "hovered", "selected", "circle"} :
             \E i \in 1..Len(d) : d[i].pass = pass

RangeAroundCursor ==
  LET mouse == getScatterGlPos(state)
  IN  SearchRange(searchIndex, Sub(mouse[1], XNormalized), Sub(mouse[2], YNormalized),
                  Add(mouse[1], XNormalized), Add(mouse[2], YNormalized))

\* the square of the distance from the cursor of the state to point idx
CursorDist2(idx) ==
  LET mouse == getScatterGlPos(state)
  IN  Dist2(searchIndex[idx][1], searchIndex[idx][2], mouse[1], mouse[2])

\* C22: raycast returns, among the nodes the range query around the cursor
\* returns, one whose distance to the cursor is minimal, the first such node
\* in query order on ties, and returns none when the range query yields no
\* node.
C22_ClosestInRange ==
  phase = "ready" =>
    LET ids == RangeAroundCursor
        found == raycast(state, searchIndex)
    IN  IF ids = << >> THEN found = << >>
        ELSE /\ found # << >>
             /\ \E k \in 1..Len(ids) :
                  /\ ids[k] = found[1]
                  /\ \A j \in 1..Len(ids) : Le(CursorDist2(ids[k]), CursorDist2(ids[j]))
                  /\ \A j \in 1..(k - 1) : Lt(CursorDist2(ids[k]), CursorDist2(ids[j]))

\* C22 witness: three candidates, the first is not the closest and the two
\* closest are at the same distance; the first of the two is returned
C22_Witness ==
  /\ phase = "ready"
  /\ Len(RangeAroundCursor) = 3
  /\ raycast(state, searchIndex) = << RangeAroundCursor[2] >>
  /\ CursorDist2(RangeAroundCursor[2]) = CursorDist2(RangeAroundCursor[3])
  /\ Lt(CursorDist2(RangeAroundCursor[2]), CursorDist2(RangeAroundCursor[1]))

\* C23: the pick search radius follows the zoom level: it is
\* base * (min(1, zoom) + log2(max(1, zoom))) * devicePixelRatio with zoom read
\* from the current model transform.
C23_RadiusFollowsZoom ==
  phase = "ready" =>
    LET zoom == state.transform[1]
    IN  ScaledPointSize =
          Mul(Mul(Mul(Int2Num(PointFactor), Int2Num(PointSize)),
                  Add(minNumber(One, zoom), Log2(maxNumber(One, zoom)))),
              Int2Num(DevicePixelRatio))

\* the weight an input edge carries: its size, else its weight, else undefined
GivenWeight(edge) == IF edge.size.t # "undef" THEN edge.size ELSE edge.weight

\* C24: after a load with edges enabled, every edge's computed width is an
\* integer inside edgesWeightRange when the input weights differ, and is
\* exactly 1 when all weights are equal or when weights are absent, whichever
\* edges of the list carry a size or weight field.
C24_EdgeWidths ==
  [][\A c \in BOOLEAN, d \in Datasets, o \in ShowEdgesOptions :
       (Constructor(c, d, o) /\ phase' = "ready" /\ OptionOn(settings'.showEdges)) =>
         LET links == app'.graph.links
             given == { GivenWeight(d.edges[k]) : k \in 1..Len(d.edges) }
             same == Cardinality(given) = 1
         IN  /\ Len(links) = Len(d.edges)
             /\ \A k \in 1..Len(links) :
                  LET w == links[k].weight
                  IN  /\ IsNum(w) /\ w.d = 1
                      /\ Ge(w, EdgesWeightRange[1]) /\ Le(w, EdgesWeightRange[2])
                      /\ same => w = Int2Num(1)
             /\ { matrices'.edgesPositionsByWeight[k].key :
                    k \in 1..Len(matrices'.edgesPositionsByWeight) }
                = { links[k].weight : k \in 1..Len(links) }]_vars

\* projection x model of the state has no inverse
Singular(st) == Mat3Invert(Mat3Multiply(st.projection, st.transform)) = << >>

\* C25: when projection x model is singular the screen-to-world conversion
\* uses the identity matrix, and the pointer move or click being handled
\* resolves to no node: a move clears the hover and hides the tooltip, a click
\* clears the selection and reports no node, for every cursor position.
C25_SingularPicksNothing ==
  [][(phase = "ready" /\ Singular(state')) =>
       /\ \A pos \in Cursors :
            LET st == [state' EXCEPT !.mousePosition = << Int2Num(pos[1]), Int2Num(pos[2]) >>]
            IN  /\ getScatterGlPos(st) = getMouseGlPos(st)
                /\ raycast(st, searchIndex') = << >>
       /\ (\E k \in 1..Len(trace') : trace'[k].kind = "tooltip") =>
            /\ state'.hoveredNode = NoNode
            /\ state'.hoverNeighbors = << >>
            /\ ~tooltip'.visible
       /\ Raised(trace', {"click"}) # << >> =>
            /\ state'.selectedNode = NoNode
            /\ state'.selectedNeighbors = << >>
            /\ Raised(trace', {"click"}) = << << "click", "null" >> >>]_vars

\* C25 witness: under the zero scale the pointer was moved onto the pixel of
\* node b and nothing is hovered
C25_Witness ==
  /\ phase = "ready"
  /\ Singular(state)
  /\ state.mousePosition = << Int2Num(350), Int2Num(50) >>
  /\ state.hoveredNode = NoNode
  /\ \E k \in 1..Len(trace) : trace[k].kind = "tooltip" /\ trace[k].name = "hide"

\* C26: every emphasis overlay draw of a frame (hovered node with its
\* neighbours, selected node with its neighbours, and the highlighted set) is
\* issued with the alpha of every drawn node forced to 1.0 and with the
\* dimming flags off (hovered = none, highlighted = false), whatever
\* defaultNodesOpacity is configured.
C26_OverlaysOpaque ==
  phase = "ready" =>
    \A k \in 1..Len(Frames) :
      \A i \in 1..Len(Frames[k].draws) :
        LET d == Frames[k].draws[i]
        IN  d.pass \in {"hovered", "selected", "highlighted"} =>
              /\ d.hovered = NoNode
              /\ d.highlighted = FALSE
              /\ Len(d.colors) = Len(d.nodes)
              /\ \A j \in 1..Len(d.colors) : d.colors[j][4] = One

\* C27: in the base node pass, whenever a node is hovered, a node is
\* selected, or a highlight set is active, every node that is not the matching
\* node (the hovered one, or the selected one when nothing is hovered) is drawn
\* with the dimmed alpha and the matching node at full alpha; with nothing
\* hovered, selected or highlighted no node is dimmed.
C27_BasePassDimming ==
  phase = "ready" =>
    \A k \in 1..Len(Frames) :
      LET s == Frames[k].snap
          base == SelectSeq(Frames[k].draws, LAMBDA d : d.pass = "nodes")[1]
          active == \/ s.hoveredNode # NoNode
                    \/ s.selectedNode # NoNode
                    \/ Len(s.highlightedNodes) > 0
          matching == IF s.hoveredNode # NoNode THEN s.hoveredNode ELSE s.selectedNode
      IN  \A j \in 1..Len(base.nodes) :
            LET i == base.nodes[j]
                alpha == pointVertexAlpha(base.colors[j], matrices.nodesPositions[i][3],
                                          base.hovered, base.highlighted)
            IN  IF active /\ i # matching THEN alpha = Num(1, 5)
                ELSE alpha = base.colors[j][4] /\ alpha = One

\* C28: for every node colour input (valid hex, rgb(...), rgba(...),
\* malformed string, or absent) the load does not throw and stores in the
\* colour array a 4-component RGBA vector whose components all lie in [0, 1];
\* an absent colour yields white with the default node opacity.
C28_ColourVectors ==
  [][\A c \in BOOLEAN, d \in Datasets, o \in ShowEdgesOptions :
       (/\ Constructor(c, d, o)
        /\ ConstructorError(c, d, o) = ""
        /\ ~LoadThrows(d, OptionOn(MergedShowEdges(o)))) =>
         /\ phase' = "ready"
         /\ DOMAIN matrices'.nodeColors = 0..(Len(d.nodes) - 1)
         /\ \A i \in DOMAIN matrices'.nodeColors :
              LET v == matrices'.nodeColors[i]
              IN  /\ Len(v) = 4
                  /\ \A k \in 1..4 : IsNum(v[k]) /\ Ge(v[k], Zero) /\ Le(v[k], One)
                  /\ d.nodes[i + 1].color.fmt = "none" =>
                       v = << One, One, One, DefaultNodesOpacity >>]_vars

\* C29: mouseDown is true once the mousedown of a pointer drag has been
\* handled, also when the drag interrupts a running reset transition whose
\* end notification is delivered after the mousedown, so that picking and
\* edge drawing are suppressed during the drag; and inAnimation is false once
\* the transition has been interrupted.
C29_DragKeepsMouseDown ==
  [][canvasMouseDown => (state'.mouseDown /\ ~state'.inAnimation)]_vars

====
